---- MODULE Spec2Model ----
(***************************************************************************)
(* Model of src/trainer.py: the Trainer of the ETH-XGaze gaze estimator.   *)
(*                                                                         *)
(* Spec      : construction and train() (resume, epoch loop, checkpoint    *)
(*             cadence, scheduler step, save_checkpoint, load_checkpoint)  *)
(*             over successive processes that share the checkpoint         *)
(*             directory.  train_one_epoch is one step here.               *)
(* SpecTest  : a process running test() on a directory that holds the      *)
(*             checkpoint of a run from scratch.                           *)
(* SpecEpoch : one call of train_one_epoch, batch by batch, with the       *)
(*             running-average meters and the telemetry it logs.           *)
(*                                                                         *)
(* Abstractions: model parameters are the number of optimizer updates      *)
(* applied to them; the learning rate is the number of gamma decays        *)
(* applied to init_lr (StepLR, config.warmup_epochs = 0); a prediction is  *)
(* the 1-based position of its sample in loader order (0 is the zero the   *)
(* output array starts with); meter arithmetic is exact (fractions), not   *)
(* floating point; every process of an experiment builds the same model    *)
(* variant, so a checkpoint's parameter names match the loading model.     *)
(***************************************************************************)
EXTENDS Integers, Sequences, FiniteSets, TLC

\* ---------------------------------------------------------------- bounds
MaxEpochs   == 6    \* config.epochs ranges over 0..MaxEpochs
MaxRuns     == 2    \* processes started one after the other
MaxBatches  == 3    \* batches the train loader yields per epoch
MaxBatch    == 2    \* largest batch size
MaxVal      == 2    \* per-batch error / loss values range over 1..MaxVal
MaxTest     == 3    \* num_test and the loader's sample count range over 0..
MaxPatience == 2    \* config.lr_patience ranges over 1..MaxPatience
MaxPrintFreq == 3   \* config.print_freq ranges over 1..MaxPrintFreq

\* ------------------------------------------------------ program constants
CkptPeriod == 5     \* epoch % 5
CkptPhase  == 4     \* == 4

ValidModelNames ==
    {"face_res50", "multi_region_res50",
     "multi_region_res50_share_eyenet", "face_poolformer24"}

ModelNames == ValidModelNames \cup {"unknown_model"}

\* largest epoch index any run can reach
MaxIdx == MaxRuns * MaxEpochs

\* checkpoint files, named by the epoch index in 'epoch_<e>_<lr>_ckpt.pth.tar'
FileIdx == {e \in 0..MaxIdx : e % CkptPeriod = CkptPhase}

VARIABLES
    pc,             \* position of the running process
    run,            \* number of processes started so far
    config,         \* the configuration record of the running process
    model,          \* self.model
    optimizer,      \* self.optimizer
    scheduler,      \* self.scheduler
    epochs,         \* self.epochs
    start_epoch,    \* self.start_epoch
    train_iter,     \* self.train_iter
    epoch,          \* loop variable of train()
    disk,           \* ckpt_dir: file index -> checkpoint record
    results_file,   \* within_eva_results.txt
    pred_gaze_all,  \* test(): the output array
    save_index,     \* test(): save_index
    consumed,       \* test(): samples the loader has yielded so far
    warned,         \* test(): the mismatch warning was printed
    i,              \* train_one_epoch: batch index
    errors,         \* train_one_epoch: AverageMeter of the angular error
    losses_gaze,    \* train_one_epoch: AverageMeter of the loss
    wandb,          \* telemetry sink: what was logged
    ret,            \* value returned by train_one_epoch
    hist            \* history: observations used to state the properties

vars == <<pc, run, config, model, optimizer, scheduler, epochs, start_epoch,
          train_iter, epoch, disk, results_file, pred_gaze_all, save_index,
          consumed, warned, i, errors, losses_gaze, wandb, ret, hist>>

trainerVars == <<model, optimizer, scheduler, epochs, start_epoch, train_iter, epoch>>
testVars    == <<results_file, pred_gaze_all, save_index, consumed, warned>>
epochVars   == <<i, errors, losses_gaze, wandb, ret>>

\* ------------------------------------------------------------- fractions
RECURSIVE GCD(_, _)
GCD(a, b) == IF b = 0 THEN a ELSE GCD(b, a % b)

\* the value num/den in lowest terms; 0 is <<0, 1>>
Frac(num, den) ==
    IF num = 0 THEN <<0, 1>>
    ELSE <<num \div GCD(num, den), den \div GCD(num, den)>>

Zero == <<0, 1>>

\* ------------------------------------------------------- objects at rest
NoModel     == [built |-> FALSE, params |-> 0]
NoOptimizer == [built |-> FALSE, steps |-> 0, lr |-> 0]
NoScheduler == [built |-> FALSE, last_epoch |-> 0]

NoFile == [exists |-> FALSE, epoch |-> 0, model_state |-> 0,
           optim_state |-> [steps |-> 0, lr |-> 0],
           scheule_state |-> [last_epoch |-> 0]]

NoSnapshot == [set |-> FALSE, model |-> NoModel, optimizer |-> NoOptimizer,
               scheduler |-> NoScheduler]

Snapshot == [set |-> TRUE, model |-> model, optimizer |-> optimizer,
             scheduler |-> scheduler]

NewMeter == [val |-> 0, avg |-> Zero, sum |-> 0, count |-> 0]

NoWandb == [train_error |-> <<>>, loss_gaze |-> <<>>, train_error_epoch |-> <<>>]

NoRet == [set |-> FALSE, train_acc |-> Zero, loss_gaze |-> Zero]

\* history of the running process, cleared when a process starts;
\* ref and savedFrom outlive the process like the files they describe
NewHist(old) ==
    [trained      |-> <<>>,      \* epoch indices train_one_epoch was run for
     saved        |-> {},        \* epoch indices save_checkpoint was called at
     steps        |-> 0,         \* scheduler.step() calls
     entry        |-> NoSnapshot,\* the objects at loop entry
     loaded       |-> -1,        \* file load_checkpoint read, -1 if none
     afterLoad    |-> NoSnapshot,\* the objects right after load_checkpoint
     written      |-> [k \in 1..MaxTest |-> 0], \* test(): writes per output row
     overrun      |-> FALSE,     \* test(): a write fell outside the array
     resetAt      |-> {},        \* train_one_epoch: batch indices with a reset
     batch        |-> [err |-> 0, loss |-> 0, n |-> 0], \* the batch just accumulated
     sum          |-> 0,         \* train_one_epoch: sum of err * n over the epoch
     count        |-> 0,         \* train_one_epoch: samples over the epoch
     ref          |-> old.ref,   \* epoch index -> objects of a run from scratch
     savedFrom    |-> old.savedFrom] \* file -> the objects the file was saved from

Hist0 ==
    NewHist([ref |-> [e \in 0..MaxIdx |-> NoSnapshot],
             savedFrom |-> [f \in FileIdx |-> NoSnapshot]])

\* ---------------------------------------------------------- configurations
TrainConfigs ==
    [is_train: {TRUE}, epochs: 0..MaxEpochs,
     continue_train: {FALSE}, path: {CkptPhase},
     batch_size: {1}, num: {0}, yield_n: {0}]
    \cup
    [is_train: {TRUE}, epochs: 0..MaxEpochs,
     continue_train: {TRUE}, path: FileIdx,
     batch_size: {1}, num: {0}, yield_n: {0}]

TestConfigs ==
    [is_train: {FALSE}, epochs: {0},
     continue_train: {FALSE}, path: FileIdx,
     batch_size: 1..MaxBatch, num: 0..MaxTest, yield_n: 0..MaxTest]

Configs == TrainConfigs

\* what stays the same from process to process: the model variant, the
\* training set and the hyperparameters of the experiment
ExperimentKeys == {"model_name", "num_batches", "lr_patience", "print_freq"}

Experiments ==
    [model_name: ModelNames, num_batches: 1..MaxBatches,
     lr_patience: 1..MaxPatience, print_freq: {1}]

\* the configuration record made of a run's part c and the experiment's part x
Merge(c, x) ==
    [k \in DOMAIN c \cup ExperimentKeys |-> IF k \in ExperimentKeys THEN x[k] ELSE c[k]]

Fresh(c) ==
    /\ pc = "start"
    /\ config = c
    /\ model = NoModel
    /\ optimizer = NoOptimizer
    /\ scheduler = NoScheduler
    /\ epochs = 0
    /\ start_epoch = 0
    /\ train_iter = 0
    /\ epoch = 0
    /\ results_file = <<>>
    /\ pred_gaze_all = <<>>
    /\ save_index = 0
    /\ consumed = 0
    /\ warned = FALSE
    /\ i = 0
    /\ errors = NewMeter
    /\ losses_gaze = NewMeter
    /\ wandb = NoWandb
    /\ ret = NoRet

Init ==
    /\ \E c \in Configs, x \in Experiments : Fresh(Merge(c, x))
    /\ run = 1
    /\ disk = [f \in FileIdx |-> NoFile]
    /\ hist = Hist0

Min(a, b) == IF a < b THEN a ELSE b

\* ------------------------------------------------------------ construction
\* Construct without the assertion on self.model
Construct_NoAssert ==
    /\ pc = "start"
    /\ epochs' = config.epochs
    /\ start_epoch' = 0
    /\ train_iter' = 0
    /\ model' = IF config.model_name \in ValidModelNames
                THEN [built |-> TRUE, params |-> 0] ELSE model
    /\ optimizer' = [built |-> TRUE, steps |-> 0, lr |-> 0]
    /\ scheduler' = [built |-> TRUE, last_epoch |-> 0]
    /\ pc' = "ready"
    /\ UNCHANGED <<run, config, epoch, disk, hist>>
    /\ UNCHANGED testVars
    /\ UNCHANGED epochVars

\* Trainer.__init__: the model is built only for a known name; the assertion
\* stops construction before the optimizer and the scheduler exist
Construct ==
    /\ pc = "start"
    /\ epochs' = config.epochs
    /\ start_epoch' = 0
    /\ train_iter' = 0
    /\ IF config.model_name \in ValidModelNames
       THEN /\ model' = [built |-> TRUE, params |-> 0]
            /\ optimizer' = [built |-> TRUE, steps |-> 0, lr |-> 0]
            /\ scheduler' = [built |-> TRUE, last_epoch |-> 0]
            /\ pc' = "ready"
       ELSE /\ UNCHANGED <<model, optimizer, scheduler>>
            /\ pc' = "assert_failed"
    /\ UNCHANGED <<run, config, epoch, disk, hist>>
    /\ UNCHANGED testVars
    /\ UNCHANGED epochVars

\* ------------------------------------------------------------ checkpoints
\* CheckpointState as if scheduler.step() came before the save
CheckpointState_Stepped ==
    [exists        |-> TRUE,
     epoch         |-> epoch + 1,
     model_state   |-> model.params,
     optim_state   |-> [steps |-> optimizer.steps, lr |-> optimizer.lr],
     scheule_state |-> [last_epoch |-> scheduler.last_epoch + 1]]

\* the record train() hands to save_checkpoint
CheckpointState ==
    [exists        |-> TRUE,
     epoch         |-> epoch + 1,
     model_state   |-> model.params,
     optim_state   |-> [steps |-> optimizer.steps, lr |-> optimizer.lr],
     scheule_state |-> [last_epoch |-> scheduler.last_epoch]]

\* save_checkpoint(state, add = 'epoch_<e>_<lr>'): torch.save into ckpt_dir
save_checkpoint(state, e) == [disk EXCEPT ![e] = state]

\* load_checkpoint that leaves the optimizer as constructed
load_checkpoint_NoOptim(f) ==
    /\ model' = [model EXCEPT !.params = disk[f].model_state]
    /\ optimizer' = optimizer
    /\ scheduler' = [scheduler EXCEPT !.last_epoch = disk[f].scheule_state.last_epoch]
    /\ start_epoch' = disk[f].epoch

\* load_checkpoint(path): restores the three objects and the resume epoch
load_checkpoint(f) ==
    /\ model' = [model EXCEPT !.params = disk[f].model_state]
    /\ optimizer' = [optimizer EXCEPT !.steps = disk[f].optim_state.steps,
                                      !.lr = disk[f].optim_state.lr]
    /\ scheduler' = [scheduler EXCEPT !.last_epoch = disk[f].scheule_state.last_epoch]
    /\ start_epoch' = disk[f].epoch

\* ------------------------------------------------------------------ train
\* TrainBegin that does not extend self.epochs by the resumed start epoch
TrainBegin_NoExtend ==
    /\ pc = "ready"
    /\ config.is_train
    /\ IF config.continue_train
       THEN IF disk[config.path].exists
            THEN /\ load_checkpoint(config.path)
                 /\ epochs' = epochs
                 /\ epoch' = start_epoch'
                 /\ pc' = "loop"
                 /\ hist' = [hist EXCEPT !.loaded = config.path,
                                         !.afterLoad = Snapshot',
                                         !.entry = Snapshot']
            ELSE /\ pc' = "crashed"
                 /\ UNCHANGED <<model, optimizer, scheduler, start_epoch,
                                epochs, epoch, hist>>
       ELSE /\ epoch' = start_epoch
            /\ pc' = "loop"
            /\ hist' = [hist EXCEPT !.entry = Snapshot]
            /\ UNCHANGED <<model, optimizer, scheduler, start_epoch, epochs>>
    /\ UNCHANGED <<run, config, train_iter, disk>>
    /\ UNCHANGED testVars
    /\ UNCHANGED epochVars

\* train(), up to the loop: the optional resume and the extension of epochs
TrainBegin ==
    /\ pc = "ready"
    /\ config.is_train
    /\ IF config.continue_train
       THEN IF disk[config.path].exists
            THEN /\ load_checkpoint(config.path)
                 /\ epochs' = epochs + start_epoch'
                 /\ epoch' = start_epoch'
                 /\ pc' = "loop"
                 /\ hist' = [hist EXCEPT !.loaded = config.path,
                                         !.afterLoad = Snapshot',
                                         !.entry = Snapshot']
            ELSE /\ pc' = "crashed"
                 /\ UNCHANGED <<model, optimizer, scheduler, start_epoch,
                                epochs, epoch, hist>>
       ELSE /\ epoch' = start_epoch
            /\ pc' = "loop"
            /\ hist' = [hist EXCEPT !.entry = Snapshot]
            /\ UNCHANGED <<model, optimizer, scheduler, start_epoch, epochs>>
    /\ UNCHANGED <<run, config, train_iter, disk>>
    /\ UNCHANGED testVars
    /\ UNCHANGED epochVars

\* one iteration of the loop up to the return of train_one_epoch: one
\* optimizer update per batch
TrainOneEpoch ==
    /\ pc = "loop"
    /\ epoch < epochs
    /\ model' = [model EXCEPT !.params = @ + config.num_batches]
    /\ optimizer' = [optimizer EXCEPT !.steps = @ + config.num_batches]
    /\ train_iter' = train_iter + config.num_batches
    /\ hist' = [hist EXCEPT !.trained = Append(@, epoch),
                            !.ref = IF config.continue_train THEN @
                                    ELSE [@ EXCEPT ![epoch] = Snapshot]]
    /\ pc' = "save"
    /\ UNCHANGED <<run, config, scheduler, epochs, start_epoch, epoch, disk>>
    /\ UNCHANGED testVars
    /\ UNCHANGED epochVars

\* range(self.start_epoch, self.epochs) is exhausted
LoopExit ==
    /\ pc = "loop"
    /\ epoch >= epochs
    /\ pc' = "done"
    /\ UNCHANGED <<run, config, disk, hist>>
    /\ UNCHANGED trainerVars
    /\ UNCHANGED testVars
    /\ UNCHANGED epochVars

\* SaveStep that saves at the epoch indices divisible by five
SaveStep_Multiple ==
    /\ pc = "save"
    /\ IF epoch % CkptPeriod = 0
       THEN /\ disk' = save_checkpoint(CheckpointState, epoch)
            /\ hist' = [hist EXCEPT !.saved = @ \cup {epoch}]
       ELSE UNCHANGED <<disk, hist>>
    /\ pc' = "sched"
    /\ UNCHANGED <<run, config>>
    /\ UNCHANGED trainerVars
    /\ UNCHANGED testVars
    /\ UNCHANGED epochVars

\* the checkpoint of every fifth epoch
SaveStep ==
    /\ pc = "save"
    /\ IF epoch % CkptPeriod = CkptPhase
       THEN /\ disk' = save_checkpoint(CheckpointState, epoch)
            /\ hist' = [hist EXCEPT !.saved = @ \cup {epoch},
                                    !.savedFrom[epoch] = Snapshot]
       ELSE UNCHANGED <<disk, hist>>
    /\ pc' = "sched"
    /\ UNCHANGED <<run, config>>
    /\ UNCHANGED trainerVars
    /\ UNCHANGED testVars
    /\ UNCHANGED epochVars

\* StepLR.step(): count the epoch, decay the rate every lr_patience epochs
SchedulerStep ==
    /\ pc = "sched"
    /\ scheduler' = [scheduler EXCEPT !.last_epoch = @ + 1]
    /\ optimizer' = [optimizer EXCEPT !.lr =
                        IF (scheduler.last_epoch + 1) % config.lr_patience = 0
                        THEN @ + 1 ELSE @]
    /\ epoch' = epoch + 1
    /\ hist' = [hist EXCEPT !.steps = @ + 1]
    /\ pc' = "loop"
    /\ UNCHANGED <<run, config, model, epochs, start_epoch, train_iter, disk>>
    /\ UNCHANGED testVars
    /\ UNCHANGED epochVars

\* ------------------------------------------------------------------- test
\* test(), up to the loop: the weights are loaded, the output array is zeroed
TestBegin ==
    /\ pc = "ready"
    /\ ~config.is_train
    /\ IF disk[config.path].exists
       THEN /\ load_checkpoint(config.path)
            /\ pred_gaze_all' = [k \in 1..config.num |-> 0]
            /\ save_index' = 0
            /\ pc' = "test_loop"
            /\ hist' = [hist EXCEPT !.loaded = config.path,
                                    !.afterLoad = Snapshot']
       ELSE /\ pc' = "crashed"
            /\ UNCHANGED <<model, optimizer, scheduler, start_epoch,
                           pred_gaze_all, save_index, hist>>
    /\ UNCHANGED <<run, config, epochs, train_iter, epoch, disk>>
    /\ UNCHANGED <<results_file, consumed, warned>>
    /\ UNCHANGED epochVars

\* rows of the output array the slice [lo : lo + batch_size] selects (1-based)
SliceRows(lo) ==
    {k \in 1..config.num : lo < k /\ k <= lo + config.batch_size}

\* TestBatch that advances save_index by batch_size, not by the batch's rows
TestBatch_FullStride ==
    /\ pc = "test_loop"
    /\ consumed < config.yield_n
    /\ LET b    == Min(config.batch_size, config.yield_n - consumed)
           rows == SliceRows(save_index)
       IN  /\ IF b = Cardinality(rows)
              THEN /\ pred_gaze_all' =
                         [k \in 1..config.num |->
                             IF k \in rows THEN consumed + (k - save_index)
                             ELSE pred_gaze_all[k]]
                   /\ pc' = "test_loop"
              ELSE IF b = 1
              THEN /\ pred_gaze_all' =
                         [k \in 1..config.num |->
                             IF k \in rows THEN consumed + 1
                             ELSE pred_gaze_all[k]]
                   /\ pc' = "test_loop"
              ELSE /\ pc' = "test_crashed"
                   /\ UNCHANGED pred_gaze_all
           /\ save_index' = IF pc' = "test_loop"
                            THEN save_index + config.batch_size ELSE save_index
           /\ consumed' = consumed + b
           /\ hist' = [hist EXCEPT
                         !.written = IF pc' = "test_loop"
                                     THEN [k \in 1..MaxTest |->
                                             IF k \in rows THEN @[k] + 1 ELSE @[k]]
                                     ELSE @,
                         !.overrun = @ \/ save_index + b > config.num]
    /\ UNCHANGED <<run, config, disk, results_file, warned>>
    /\ UNCHANGED trainerVars
    /\ UNCHANGED epochVars

\* one batch of the test loader: b predictions are assigned to the slice.
\* The assignment needs b rows, or one row that is copied to every row of
\* the slice; any other shape raises
TestBatch ==
    /\ pc = "test_loop"
    /\ consumed < config.yield_n
    /\ LET b    == Min(config.batch_size, config.yield_n - consumed)
           rows == SliceRows(save_index)
       IN  /\ IF b = Cardinality(rows)
              THEN /\ pred_gaze_all' =
                         [k \in 1..config.num |->
                             IF k \in rows THEN consumed + (k - save_index)
                             ELSE pred_gaze_all[k]]
                   /\ pc' = "test_loop"
              ELSE IF b = 1
              THEN /\ pred_gaze_all' =
                         [k \in 1..config.num |->
                             IF k \in rows THEN consumed + 1
                             ELSE pred_gaze_all[k]]
                   /\ pc' = "test_loop"
              ELSE /\ pc' = "test_crashed"
                   /\ UNCHANGED pred_gaze_all
           /\ save_index' = IF pc' = "test_loop" THEN save_index + b ELSE save_index
           /\ consumed' = consumed + b
           /\ hist' = [hist EXCEPT
                         !.written = IF pc' = "test_loop"
                                     THEN [k \in 1..MaxTest |->
                                             IF k \in rows THEN @[k] + 1 ELSE @[k]]
                                     ELSE @,
                         !.overrun = @ \/ save_index + b > config.num]
    /\ UNCHANGED <<run, config, disk, results_file, warned>>
    /\ UNCHANGED trainerVars
    /\ UNCHANGED epochVars

\* after the loop: the warning, then np.savetxt
TestFinish ==
    /\ pc = "test_loop"
    /\ consumed = config.yield_n
    /\ warned' = (save_index # config.num)
    /\ results_file' = pred_gaze_all
    /\ pc' = "test_done"
    /\ UNCHANGED <<run, config, disk, hist, pred_gaze_all, save_index, consumed>>
    /\ UNCHANGED trainerVars
    /\ UNCHANGED epochVars

\* ------------------------------------------------------------ next process
\* positions at which the process has ended
Ended == {"done", "test_done", "assert_failed", "crashed", "test_crashed"}

\* the process has ended and another one is started on the same checkpoint
\* directory
Restart ==
    /\ pc \in Ended
    /\ run < MaxRuns
    /\ run' = run + 1
    /\ \E c \in Configs : config' = Merge(c, config)
    /\ pc' = "start"
    /\ model' = NoModel
    /\ optimizer' = NoOptimizer
    /\ scheduler' = NoScheduler
    /\ epochs' = 0
    /\ start_epoch' = 0
    /\ train_iter' = 0
    /\ epoch' = 0
    /\ results_file' = <<>>
    /\ pred_gaze_all' = <<>>
    /\ save_index' = 0
    /\ consumed' = 0
    /\ warned' = FALSE
    /\ hist' = NewHist(hist)
    /\ UNCHANGED disk
    /\ UNCHANGED epochVars

Next ==
    \/ Construct
    \/ TrainBegin
    \/ TrainOneEpoch
    \/ LoopExit
    \/ SaveStep
    \/ SchedulerStep
    \/ Restart

Spec == Init /\ [][Next]_vars

\* ------------------------------------------------------- a process of test()
\* the checkpoint directory as a run from scratch of more than five epochs
\* leaves it: one file, written at epoch index 4
ScratchDisk(x) ==
    [f \in FileIdx |->
        IF f = CkptPhase
        THEN [exists        |-> TRUE,
              epoch         |-> CkptPhase + 1,
              model_state   |-> (CkptPhase + 1) * x.num_batches,
              optim_state   |-> [steps |-> (CkptPhase + 1) * x.num_batches,
                                 lr |-> CkptPhase \div x.lr_patience],
              scheule_state |-> [last_epoch |-> CkptPhase]]
        ELSE NoFile]

\* a process with is_train false is started on that directory
InitTest ==
    /\ \E c \in TestConfigs, x \in Experiments :
          /\ Fresh(Merge(c, x))
          /\ disk = ScratchDisk(x)
    /\ run = 2
    /\ hist = Hist0

NextTest ==
    \/ Construct
    \/ TestBegin
    \/ TestBatch
    \/ TestFinish

SpecTest == InitTest /\ [][NextTest]_vars

\* -------------------------------------------------------- train_one_epoch
\* AverageMeter.update(val, n) and AverageMeter.reset() of utils
MeterUpdate(m, v, n) ==
    [val |-> v, sum |-> m.sum + v * n, count |-> m.count + n,
     avg |-> Frac(m.sum + v * n, m.count + n)]

MeterReset(m) == [val |-> 0, avg |-> Zero, sum |-> 0, count |-> 0]

\* train_one_epoch is entered in the first epoch of a run from scratch
InitEpoch ==
    /\ \E nb \in 1..MaxBatches, pf \in 1..MaxPrintFreq :
          config = [is_train |-> TRUE, epochs |-> MaxEpochs, continue_train |-> FALSE,
                    path |-> CkptPhase, batch_size |-> MaxBatch, num |-> 0,
                    yield_n |-> 0, model_name |-> "face_res50",
                    num_batches |-> nb, lr_patience |-> 1, print_freq |-> pf]
    /\ pc = "toe_batch"
    /\ run = 1
    /\ model = [built |-> TRUE, params |-> 0]
    /\ optimizer = [built |-> TRUE, steps |-> 0, lr |-> 0]
    /\ scheduler = [built |-> TRUE, last_epoch |-> 0]
    /\ epochs = MaxEpochs
    /\ start_epoch = 0
    /\ train_iter = 0
    /\ epoch = 0
    /\ disk = [f \in FileIdx |-> NoFile]
    /\ results_file = <<>>
    /\ pred_gaze_all = <<>>
    /\ save_index = 0
    /\ consumed = 0
    /\ warned = FALSE
    /\ i = 0
    /\ errors = NewMeter
    /\ losses_gaze = NewMeter
    /\ wandb = NoWandb
    /\ ret = NoRet
    /\ hist = [Hist0 EXCEPT !.entry = Snapshot]

\* one batch: forward pass, error, loss, optimizer update, both meters
Update ==
    /\ pc = "toe_batch"
    /\ i < config.num_batches
    /\ \E err \in 1..MaxVal, loss \in 1..MaxVal, n \in 1..MaxBatch :
          /\ errors' = MeterUpdate(errors, err, n)
          /\ losses_gaze' = MeterUpdate(losses_gaze, loss, n)
          /\ hist' = [hist EXCEPT !.batch = [err |-> err, loss |-> loss, n |-> n],
                                  !.sum = @ + err * n,
                                  !.count = @ + n]
    /\ model' = [model EXCEPT !.params = @ + 1]
    /\ optimizer' = [optimizer EXCEPT !.steps = @ + 1]
    /\ pc' = "toe_report"
    /\ UNCHANGED <<run, config, scheduler, epochs, start_epoch, train_iter, epoch,
                   disk, i, wandb, ret>>
    /\ UNCHANGED testVars

\* Report that logs but does not reset the meters
Report_NoReset ==
    /\ pc = "toe_report"
    /\ IF i % config.print_freq = 0 /\ i # 0
       THEN /\ wandb' = [wandb EXCEPT !.train_error = Append(@, errors.avg),
                                      !.loss_gaze = Append(@, losses_gaze.avg)]
            /\ hist' = [hist EXCEPT !.resetAt = @ \cup {i}]
            /\ UNCHANGED <<errors, losses_gaze>>
       ELSE UNCHANGED <<wandb, errors, losses_gaze, hist>>
    /\ train_iter' = train_iter + 1
    /\ i' = i + 1
    /\ pc' = "toe_batch"
    /\ UNCHANGED <<run, config, model, optimizer, scheduler, epochs, start_epoch,
                   epoch, disk, ret>>
    /\ UNCHANGED testVars

\* the report of every print_freq-th batch, which resets both meters
Report ==
    /\ pc = "toe_report"
    /\ IF i % config.print_freq = 0 /\ i # 0
       THEN /\ wandb' = [wandb EXCEPT !.train_error = Append(@, errors.avg),
                                      !.loss_gaze = Append(@, losses_gaze.avg)]
            /\ errors' = MeterReset(errors)
            /\ losses_gaze' = MeterReset(losses_gaze)
            /\ hist' = [hist EXCEPT !.resetAt = @ \cup {i}]
       ELSE UNCHANGED <<wandb, errors, losses_gaze, hist>>
    /\ train_iter' = train_iter + 1
    /\ i' = i + 1
    /\ pc' = "toe_batch"
    /\ UNCHANGED <<run, config, model, optimizer, scheduler, epochs, start_epoch,
                   epoch, disk, ret>>
    /\ UNCHANGED testVars

\* after the last batch: the per-epoch log and the return value
Finish ==
    /\ pc = "toe_batch"
    /\ i = config.num_batches
    /\ wandb' = [wandb EXCEPT !.train_error_epoch = Append(@, errors.avg)]
    /\ ret' = [set |-> TRUE, train_acc |-> errors.avg, loss_gaze |-> losses_gaze.avg]
    /\ pc' = "toe_ret"
    /\ UNCHANGED <<run, config, disk, hist, i, errors, losses_gaze>>
    /\ UNCHANGED trainerVars
    /\ UNCHANGED testVars

NextEpoch ==
    \/ Update
    \/ Report
    \/ Finish

SpecEpoch == InitEpoch /\ [][NextEpoch]_vars

\* ================================================================ claims
InTrainLoop == pc \in {"loop", "save", "sched", "done"}

\* the epoch indices k-1 for k = 1..n, from s on
Indices(s, n) == [k \in 1..n |-> s + k - 1]

\* the epoch indices whose checkpoint decision has been taken
Decided == IF pc = "sched" THEN start_epoch..epoch ELSE start_epoch..(epoch - 1)

C2_ContinueExtends ==
    (config.is_train /\ config.continue_train /\ InTrainLoop) =>
        /\ start_epoch = disk[config.path].epoch
        /\ epochs = config.epochs + start_epoch
        /\ Len(hist.trained) <= config.epochs
        /\ hist.trained = Indices(start_epoch, Len(hist.trained))
        /\ (pc = "done" => Len(hist.trained) = config.epochs)

C2_Witness ==
    /\ pc = "done"
    /\ config.is_train /\ config.continue_train
    /\ start_epoch > 0
    /\ config.epochs > 1
    /\ Len(hist.trained) = config.epochs

C4_TestRows ==
    (~config.is_train /\ config.yield_n = config.num) =>
        /\ pc # "test_crashed"
        /\ ~hist.overrun
        /\ pc \in {"test_loop", "test_done"} =>
              /\ save_index = consumed
              /\ save_index <= config.num
              /\ \A k \in 1..config.num :
                    IF k <= save_index
                    THEN pred_gaze_all[k] = k /\ hist.written[k] = 1
                    ELSE pred_gaze_all[k] = 0 /\ hist.written[k] = 0
        /\ pc = "test_done" =>
              /\ save_index = config.num
              /\ ~warned
              /\ results_file = [k \in 1..config.num |-> k]

C4_Witness ==
    /\ pc = "test_done"
    /\ ~config.is_train
    /\ config.yield_n = config.num
    /\ config.num > config.batch_size
    /\ config.num % config.batch_size # 0
    /\ config.batch_size > 1

\* C5 (as claimed): whenever the loader yields a number of samples other than
\* num_test, test() is not aborted
C5_MismatchOnlyWarns ==
    (~config.is_train /\ config.yield_n # config.num) => pc # "test_crashed"

\* C7: construction selects a model exactly for the four known names; for
\* any other name it stops at the assertion with no optimizer and no
\* scheduler, and no step of train(), test(), load_checkpoint or
\* save_checkpoint is ever taken by that process
C7_ClosedEnumeration ==
    pc # "start" =>
        /\ model.built <=> config.model_name \in ValidModelNames
        /\ config.model_name \notin ValidModelNames =>
              /\ pc = "assert_failed"
              /\ ~optimizer.built
              /\ ~scheduler.built
              /\ hist.trained = <<>>
              /\ hist.saved = {}
              /\ hist.loaded = -1
              /\ results_file = <<>>
        /\ config.model_name \in ValidModelNames =>
              /\ pc # "assert_failed"
              /\ optimizer.built
              /\ scheduler.built

C7_Witness ==
    /\ pc = "assert_failed"
    /\ config.model_name = "unknown_model"
    /\ run = MaxRuns

\* C8: in every epoch the training pass comes first, then the checkpoint
\* decision, then one scheduler.step(); after k completed epochs the
\* scheduler has been stepped k times since loop entry; the checkpoint
\* written at epoch index e holds the scheduler as it was before the step of
\* epoch e and the epoch field e + 1
C8_StepAfterSave ==
    (config.is_train /\ InTrainLoop) =>
        /\ hist.steps = epoch - start_epoch
        /\ scheduler.last_epoch = hist.entry.scheduler.last_epoch + hist.steps
        /\ Len(hist.trained) = IF pc \in {"save", "sched"}
                               THEN hist.steps + 1 ELSE hist.steps
        /\ pc = "save" => epoch \notin hist.saved
        /\ (pc = "sched" /\ epoch % 5 = 4) => epoch \in hist.saved
        /\ \A e \in hist.saved :
              /\ disk[e].exists
              /\ disk[e].epoch = e + 1
              /\ disk[e].scheule_state.last_epoch =
                    hist.entry.scheduler.last_epoch + (e - start_epoch)

C8_Witness ==
    /\ pc = "loop"
    /\ config.is_train
    /\ config.continue_train
    /\ hist.saved # {}
    /\ hist.steps > 1

\* C9 (as claimed): a run resumed from the checkpoint of epoch index e enters
\* its first epoch e + 1 with the model, the optimizer and the scheduler that
\* a run from scratch has at the start of epoch e + 1
C9_ResumeEquivalence ==
    (/\ pc = "loop"
     /\ config.is_train /\ config.continue_train
     /\ epoch = start_epoch
     /\ epoch < epochs
     /\ hist.steps = 0
     /\ hist.ref[epoch].set) =>
        /\ model = hist.ref[epoch].model
        /\ optimizer = hist.ref[epoch].optimizer
        /\ scheduler = hist.ref[epoch].scheduler

\* the batch indices below n at which the meters are reported and reset
ResetIndices(n) == {j \in 1..(n - 1) : j % config.print_freq = 0}

\* C6: in train_one_epoch the meters are reported and reset at batch index j
\* exactly when j % print_freq = 0 and j # 0, and once the batch that follows
\* a reset has been accumulated the averages of both meters are that batch's
\* error and loss, whatever its size
C6_ResetThenSingleBatch ==
    /\ hist.resetAt = ResetIndices(i)
    /\ Len(wandb.train_error) = Cardinality(hist.resetAt)
    /\ Len(wandb.loss_gaze) = Cardinality(hist.resetAt)
    /\ (pc = "toe_report" /\ (i - 1) \in hist.resetAt) =>
          /\ errors.avg = <<hist.batch.err, 1>>
          /\ losses_gaze.avg = <<hist.batch.loss, 1>>
          /\ errors.count = hist.batch.n
    /\ (pc = "toe_batch" /\ (i - 1) \in hist.resetAt) =>
          /\ errors.avg = Zero
          /\ losses_gaze.avg = Zero

C6_Witness ==
    /\ pc = "toe_report"
    /\ (i - 1) \in hist.resetAt
    /\ hist.batch.n > 1
    /\ hist.sum # hist.batch.err * hist.count
    /\ errors.avg = <<hist.batch.err, 1>>

\* C10 (as claimed): the one train_error_epoch value logged at the end of
\* train_one_epoch, which is also the first value returned, is the
\* sample-weighted average of the error over all batches of the epoch
C10_EpochAggregate ==
    pc = "toe_ret" =>
        /\ Len(wandb.train_error_epoch) = 1
        /\ wandb.train_error_epoch[1] = Frac(hist.sum, hist.count)
        /\ ret.train_acc = wandb.train_error_epoch[1]
====
